---- MODULE Spec2Model ----
(***************************************************************************)
(* Model of the migration engine of script.program.mysqlassistant          *)
(* (resources/lib/migrator.py): migrate_database copies every user table   *)
(* of a local SQLite library into a MySQL database, one transaction per    *)
(* table.  The environment (server, source file, target schema) is fixed   *)
(* by Init and stays the same across successive calls, so that a second    *)
(* call meets exactly the conditions of the first.                         *)
(*                                                                         *)
(* SpecLib is _migrate_kodi_library, the wrapper that resolves the         *)
(* database name, the source file and the connection details and then      *)
(* calls migrate_database.  SpecCheck is check_kodi_dbs of                 *)
(* resources/lib/db_checker.py, which classifies the library databases of  *)
(* a server against the schema versions the running Kodi build expects.    *)
(* SpecWizard is main() of default.py, the wizard that collects and tests  *)
(* the connection, shows the compatibility check, asks for the libraries   *)
(* to store and to migrate, runs the migrations and writes                 *)
(* advancedsettings.xml; LiveWizard adds that the showing of the check     *)
(* returns.                                                                *)
(* Strings that the code parses, strips, sorts or matches are sequences    *)
(* of characters.                                                          *)
(***************************************************************************)
EXTENDS Bags, FiniteSets, Integers, Sequences, TLC

\* ---------------------------------------------------------------- bounds
MaxRows == 2      \* rows held by one source table
MaxOldKey == 1    \* keys of the rows a target table holds before the first call
MaxRuns == 2      \* successive calls of migrate_database

\* ------------------------------------------------------------ data domain
\* Table names are sequences of characters, because the code hands them to
\* two LIKE patterns in which "_" and "%" are wildcards, and pastes them
\* unquoted into the SELECT that reads the source table.
TableNames == { <<"a", "b">>, <<"a", "_">>, <<"a", "-">> }

\* the characters an unquoted SQL identifier may consist of
IdentChars == {"a", "b", "_"}

AllColumns == {"k", "v"}

SrcRow(i) == [k |-> i, v |-> "src"]
OldRow(i) == [k |-> i, v |-> "old"]

SrcRowSeqs == { [i \in 1..n |-> SrcRow(i)] : n \in 0..MaxRows }
\* the rows of an earlier import, with keys ks
OldRowBag(ks) == SetToBag({ OldRow(i) : i \in ks })

Range(s) == { s[i] : i \in 1..Len(s) }

\* every ordering of every subset of the table names
Catalogs ==
  { s \in UNION { [1..n -> TableNames] : n \in 0..Cardinality(TableNames) } :
      \A i, j \in 1..Len(s) : i # j => s[i] # s[j] }

\* A target table that the run can write: with or without a primary/unique
\* key on k, with or without the source's column v, with a commit that
\* succeeds or raises.  Key and columns of a table whose batch always
\* raises are unobservable, so one representative of each is kept.
TableMetas ==
  { [keyed |-> TRUE,  cols |-> AllColumns, commitOK |-> TRUE],
    [keyed |-> FALSE, cols |-> AllColumns, commitOK |-> TRUE],
    [keyed |-> TRUE,  cols |-> {"k"},      commitOK |-> TRUE],
    [keyed |-> TRUE,  cols |-> AllColumns, commitOK |-> FALSE] }

DefaultMeta == [keyed |-> TRUE, cols |-> AllColumns, commitOK |-> TRUE]

VARIABLES
  server,           \* "ok" | "down" | "no_create" | "db_denied"
  srcFile,          \* "ok" | "missing" | "corrupt"
  sqlite_master,    \* source catalog: table names in catalog order
  srcRows,          \* source table -> its rows, in SELECT order
  dbExists,         \* does the target database exist on the server
  tgtTables,        \* names of the tables of the target database
  tgtMeta,          \* target table -> [keyed, cols, commitOK]
  committed,        \* target table -> bag of committed rows
  view,             \* target table -> bag of rows as seen by mysql_conn's transaction
  pc,               \* position of the current call
  run,              \* number of calls started so far
  conns,            \* connections currently open
  tables,           \* list produced by _iter_sqlite_tables
  idx,              \* position of the loop in tables
  rows,             \* rows fetched for the current table
  migrated_tables,  \* the counter of line 174
  log,              \* table -> what the run logged about it
  raised,           \* where the exception that left the loop/the call was raised
  result,           \* return value of the call: "none" | "True" | "False"
  tgt0,             \* committed rows when the current call started
  \* _migrate_kodi_library (migrator.py, lines 71-95)
  library_config,   \* key -> value of the library section handed in
  sqlite_pattern,   \* [folder, filename] of the pattern handed in
  server_params,    \* key -> value of the connection details handed in
  files,            \* the files of the local file system
  kodi_prefix,      \* "MyVideos" or "MyMusic", as the public wrapper passes it
  target_database,  \* local of line 81
  sqlite_path,      \* local of line 86
  mysql_params,     \* local of line 91
  error,            \* what _show_error was last called with
  \* check_kodi_dbs (db_checker.py, lines 144-161)
  build_version,    \* the label System.BuildVersion
  kodi_ver,         \* what get_kodi_version returned
  mysql_up,         \* does the server accept the connection
  mysql_dbs,        \* names of the databases on the server
  cpc,              \* position of the compatibility check
  major,            \* _parse_kodi_major(kodi_ver)
  expected_info,    \* get_kodi_db_info(): prefix -> expected version string
  existing,         \* get_existing_kodi_dbs(): name -> version string
  check_result,     \* what check_kodi_dbs returned
  \* the wizard, main() of default.py (lines 463-491)
  server_up,        \* does the MySQL server answer
  mysql_module,     \* could mysql.connector be imported
  account_password, \* the password of the MySQL account, possibly empty
  check_outcome,    \* what check_kodi_dbs will do for the wizard
  migrate_outcome,  \* library -> what its migration meets once it runs
  wpc,              \* position of the wizard
  mode,             \* "scan" | "manual" | "none"
  details,          \* host, port, user, password as last entered
  connection,       \* what _collect_connection_details returned
  check_shown,      \* what _show_existing_kodi_databases showed or logged
  video_section,    \* the video section handed to the migration, or None
  music_section,    \* the music section handed to the migration, or None
  migrate_opts,     \* [migrate_video, migrate_music]
  attempted,        \* libraries whose migration was called
  succeeded,        \* libraries whose migration returned True
  shown_error,      \* library -> the error its migration showed
  written           \* was write_advancedsettings called

libVars == << library_config, sqlite_pattern, server_params, files,
              kodi_prefix, target_database, sqlite_path, mysql_params,
              error >>

chkVars == << build_version, kodi_ver, mysql_up, mysql_dbs, cpc, major,
              expected_info, existing, check_result >>

wizVars == << server_up, mysql_module, account_password, check_outcome, migrate_outcome,
              wpc, mode, details, connection, check_shown, video_section,
              music_section, migrate_opts, attempted, succeeded, shown_error, written >>

vars == << server, srcFile, sqlite_master, srcRows, dbExists,
           tgtTables, tgtMeta, committed, view, pc, run, conns, tables, idx,
           rows, migrated_tables, log, raised, result, tgt0, libVars,
           chkVars, wizVars >>

envVars == << server, srcFile, sqlite_master, srcRows, tgtTables, tgtMeta >>

libIn == << library_config, sqlite_pattern, server_params, files,
            kodi_prefix >>

migrateLocals == << run, tables, idx, rows, migrated_tables, log, raised,
                    tgt0 >>

targetVars == << dbExists, committed, view, conns >>

NoLog == [t \in TableNames |-> "none"]

\* ------------------------------------------------------- pure functions
\* SQL LIKE: "_" matches one character, "%" any run of characters.
RECURSIVE LikeMatch(_, _)
LikeMatch(pattern, name) ==
  IF pattern = <<>> THEN name = <<>>
  ELSE IF Head(pattern) = "%"
       THEN LikeMatch(Tail(pattern), name)
            \/ (name # <<>> /\ LikeMatch(pattern, Tail(name)))
       ELSE /\ name # <<>>
            /\ (Head(pattern) = "_" \/ Head(pattern) = Head(name))
            /\ LikeMatch(Tail(pattern), Tail(name))

SqliteInternalPattern == << "s", "q", "l", "i", "t", "e", "_", "%" >>

\* SELECT name FROM sqlite_master WHERE type='table' AND name NOT LIKE 'sqlite_%'
_iter_sqlite_tables(master) ==
  SelectSeq(master, LAMBDA n : ~LikeMatch(SqliteInternalPattern, n))

\* SHOW TABLES LIKE %s with the table name as the pattern
_mysql_table_exists(catalog, table) ==
  \E n \in catalog : LikeMatch(table, n)

\* SELECT * FROM {table}: the name is pasted unquoted, so the statement
\* parses only when the name is a bare identifier
SelectParses(table) == \A i \in 1..Len(table) : table[i] \in IdentChars

\* the statement with REPLACE for its conflict policy
_build_insert_sql_replace(table, columns) ==
  [verb |-> "REPLACE", table |-> table, columns |-> columns]

\* INSERT IGNORE INTO `table` (columns) VALUES (...)
_build_insert_sql(table, columns) ==
  [verb |-> "INSERT IGNORE", table |-> table, columns |-> columns]

\* rows[0].keys(): the columns of the first fetched row
RowColumns(r) == DOMAIN r

HasKey(bag, key) == \E x \in BagToSet(bag) : x.k = key

WithoutKey(bag, key) ==
  LET keep == { x \in BagToSet(bag) : x.k # key }
  IN  [x \in keep |-> bag[x]]

\* The rows of one table after the batch, row by row, under the statement's
\* conflict policy.  A key collision exists only where the table has a
\* primary/unique key.
RECURSIVE ApplyBatch(_, _, _, _)
ApplyBatch(verb, keyed, bag, values) ==
  IF values = <<>> THEN [ok |-> TRUE, bag |-> bag]
  ELSE LET r == Head(values)
           collide == keyed /\ HasKey(bag, r.k)
       IN  IF ~collide
           THEN ApplyBatch(verb, keyed, bag (+) SetToBag({r}), Tail(values))
           ELSE IF verb = "INSERT IGNORE"
           THEN ApplyBatch(verb, keyed, bag, Tail(values))
           ELSE IF verb = "REPLACE"
           THEN ApplyBatch(verb, keyed, WithoutKey(bag, r.k) (+) SetToBag({r}), Tail(values))
           ELSE [ok |-> FALSE, bag |-> bag]

\* mysql_cursor.executemany(insert_sql, values) inside the open transaction
ExecuteMany(sql, values, v) ==
  IF sql.table \notin tgtTables \/ ~(sql.columns \subseteq tgtMeta[sql.table].cols)
  THEN [ok |-> FALSE, view |-> v]
  ELSE LET res == ApplyBatch(sql.verb, tgtMeta[sql.table].keyed, v[sql.table], values)
       IN  [ok |-> res.ok, view |-> [v EXCEPT ![sql.table] = res.bag]]

\* ---------------------------------------------- Python values and strings
\* A value handed in by the caller: None, a str (a sequence of characters)
\* or an int.
PyNone == [ty |-> "none", s |-> <<>>, n |-> 0]
PyStr(chars) == [ty |-> "str", s |-> chars, n |-> 0]
PyInt(i) == [ty |-> "int", s |-> <<>>, n |-> i]

\* bool(value), as "if value" and "not value" take it
Truthy(value) ==
  CASE value.ty = "none" -> FALSE
    [] value.ty = "str"  -> value.s # <<>>
    [] value.ty = "int"  -> value.n # 0

\* the characters in use, in code point order
Alphabet == << " ", "*", "+", "-", ".",
               "0", "1", "2", "3", "4", "5", "6", "7", "8", "9",
               "M", "V", "X", "b", "c", "d", "e", "h", "i", "o", "p", "r",
               "s", "u", "x", "y", "z" >>

ord(c) == CHOOSE i \in 1..Len(Alphabet) : Alphabet[i] = c

Digits == << "0", "1", "2", "3", "4", "5", "6", "7", "8", "9" >>

IsDigit(c) == \E i \in 1..Len(Digits) : Digits[i] = c

DigitValue(c) == (CHOOSE i \in 1..Len(Digits) : Digits[i] = c) - 1

\* str.strip()
RECURSIVE strip(_)
strip(s) ==
  IF s = <<>> THEN s
  ELSE IF Head(s) = " " THEN strip(Tail(s))
  ELSE IF s[Len(s)] = " " THEN strip(SubSeq(s, 1, Len(s) - 1))
  ELSE s

\* the number a string of decimal digits denotes
RECURSIVE DecimalValue(_)
DecimalValue(s) ==
  IF s = <<>> THEN 0
  ELSE DecimalValue(SubSeq(s, 1, Len(s) - 1)) * Len(Digits)
         + DigitValue(s[Len(s)])

\* int(s) of a str: surrounding blanks and one sign are accepted, then
\* there must be digits and nothing else; anything else is a ValueError
int_of_str(s) ==
  LET t == strip(s)
      signed == t # <<>> /\ Head(t) \in {"+", "-"}
      u == IF signed THEN Tail(t) ELSE t
  IN  IF u = <<>> \/ \E i \in 1..Len(u) : ~IsDigit(u[i])
      THEN [exc |-> "ValueError", val |-> 0]
      ELSE [exc |-> "none",
            val |-> IF signed /\ Head(t) = "-" THEN 0 - DecimalValue(u)
                    ELSE DecimalValue(u)]

\* int(value) of a value: the int itself, the parse of a str, TypeError
\* for None
int(value) ==
  CASE value.ty = "int"  -> [exc |-> "none", val |-> value.n]
    [] value.ty = "str"  -> int_of_str(value.s)
    [] value.ty = "none" -> [exc |-> "TypeError", val |-> 0]

\* str(n) of a natural number
RECURSIVE str_of_int(_)
str_of_int(n) ==
  IF n < Len(Digits) THEN << Digits[n + 1] >>
  ELSE str_of_int(n \div Len(Digits)) \o << Digits[(n % Len(Digits)) + 1] >>

\* str(value) of a str or an int
str(value) == IF value.ty = "int" THEN str_of_int(value.n) ELSE value.s

\* s.startswith(prefix)
startswith(s, prefix) ==
  Len(s) >= Len(prefix) /\ SubSeq(s, 1, Len(prefix)) = prefix

\* a < b as Python orders two strings: by the first character that differs,
\* a proper prefix first
RECURSIVE StrLess(_, _)
StrLess(a, b) ==
  IF b = <<>> THEN FALSE
  ELSE IF a = <<>> THEN TRUE
  ELSE IF Head(a) = Head(b) THEN StrLess(Tail(a), Tail(b))
  ELSE ord(Head(a)) < ord(Head(b))

MyVideos == << "M", "y", "V", "i", "d", "e", "o", "s" >>
MyMusic == << "M", "y", "M", "u", "s", "i", "c" >>
DotDb == << ".", "d", "b" >>

\* ----------------------------------------- _migrate_kodi_library, in parts
ConfigKeys == {"database", "name", "dbname", "version"}

\* the keys an explicit database name is looked up under, in this order
NameKeys_dbname_first == << "dbname", "name", "database" >>
NameKeys == << "database", "name", "dbname" >>

\* lines 101-104: the first key that holds a non-blank str, stripped
RECURSIVE FirstName(_, _)
FirstName(config, i) ==
  IF i > Len(NameKeys) THEN PyNone
  ELSE LET value == config[NameKeys[i]]
       IN  IF value.ty = "str" /\ strip(value.s) # <<>>
           THEN PyStr(strip(value.s))
           ELSE FirstName(config, i + 1)

\* lines 98-108.  A configuration that is None or {} is the one without
\* any key; config.get of an absent key is None.
_resolve_database_name(config, default_prefix) ==
  IF \A key \in ConfigKeys : config[key] = PyNone
  THEN PyNone
  ELSE LET explicit == FirstName(config, 1)
           suffix == config["version"]
       IN  IF explicit # PyNone THEN explicit
           ELSE IF suffix.ty \in {"str", "int"} /\ strip(str(suffix)) # <<>>
           THEN PyStr(default_prefix \o str(suffix))
           ELSE PyNone

\* fnmatch of a file name against a pattern in which "*" stands for any
\* run of characters
RECURSIVE GlobMatch(_, _)
GlobMatch(pattern, name) ==
  IF pattern = <<>> THEN name = <<>>
  ELSE IF Head(pattern) = "*"
       THEN \/ GlobMatch(Tail(pattern), name)
            \/ name # <<>> /\ GlobMatch(pattern, Tail(name))
       ELSE /\ name # <<>>
            /\ Head(name) = Head(pattern)
            /\ GlobMatch(Tail(pattern), Tail(name))

\* line 116: xbmcvfs.translatePath of a special:// folder
translatePath(folder) ==
  IF folder = "special://database" THEN "Database" ELSE folder

\* sorted(): the names of a set in ascending order
RECURSIVE sorted(_)
sorted(names) ==
  IF names = {} THEN <<>>
  ELSE LET last == CHOOSE x \in names :
                     \A y \in names : y = x \/ StrLess(y, x)
       IN  Append(sorted(names \ {last}), last)

\* the first match instead of the last
_resolve_sqlite_path_first(fs, pattern, default_prefix) ==
  LET filename == IF pattern.filename = <<>>
                  THEN default_prefix \o << "*" >> \o DotDb
                  ELSE pattern.filename
      folder == translatePath(pattern.folder)
      matches == sorted({ f.name : f \in { g \in fs :
                   g.folder = folder /\ GlobMatch(filename, g.name) } })
  IN  IF matches = <<>> THEN PyNone ELSE PyStr(matches[1])
\* lines 111-120, over the files fs.  All matches lie in one folder, so
\* their paths are ordered as their names are.
_resolve_sqlite_path(fs, pattern, default_prefix) ==
  LET filename == IF pattern.filename = <<>>
                  THEN default_prefix \o << "*" >> \o DotDb
                  ELSE pattern.filename
      folder == translatePath(pattern.folder)
      matches == sorted({ f.name : f \in { g \in fs :
                   g.folder = folder /\ GlobMatch(filename, g.name) } })
  IN  IF matches = <<>> THEN PyNone ELSE PyStr(matches[Len(matches)])

ParamKeys == {"host", "user", "password", "port"}

required_keys == << "host", "user", "password" >>

NoError == [msg |-> "none", fields |-> <<>>]

NoParams == [host |-> PyNone, user |-> PyNone, password |-> PyNone,
             database |-> PyNone, port |-> PyNone]

\* reports the first missing key only
_build_mysql_params_first_missing(params_in, database) ==
  LET missing == SelectSeq(required_keys,
                           LAMBDA key : ~Truthy(params_in[key]))
      params == [host |-> params_in["host"], user |-> params_in["user"],
                 password |-> params_in["password"], database |-> database,
                 port |-> PyNone]
      port == params_in["port"]
  IN  IF missing # <<>>
      THEN [ok |-> FALSE, params |-> NoParams,
            error |-> [msg |-> "Missing MySQL connection details",
                       fields |-> << Head(missing) >>]]
      ELSE IF Truthy(port)
      THEN IF int(port).exc \in {"TypeError", "ValueError"}
           THEN [ok |-> FALSE, params |-> NoParams,
                 error |-> [msg |-> "Invalid MySQL port value",
                            fields |-> <<>>]]
           ELSE [ok |-> TRUE, params |-> [params EXCEPT !.port = PyInt(int(port).val)],
                 error |-> NoError]
      ELSE [ok |-> TRUE, params |-> params, error |-> NoError]
\* lines 123-147: the parameters, or None and the error shown
_build_mysql_params(params_in, database) ==
  LET missing == SelectSeq(required_keys,
                           LAMBDA key : ~Truthy(params_in[key]))
      params == [host |-> params_in["host"], user |-> params_in["user"],
                 password |-> params_in["password"], database |-> database,
                 port |-> PyNone]
      port == params_in["port"]
  IN  IF missing # <<>>
      THEN [ok |-> FALSE, params |-> NoParams,
            error |-> [msg |-> "Missing MySQL connection details",
                       fields |-> missing]]
      ELSE IF Truthy(port)
      THEN IF int(port).exc \in {"TypeError", "ValueError"}
           THEN [ok |-> FALSE, params |-> NoParams,
                 error |-> [msg |-> "Invalid MySQL port value",
                            fields |-> <<>>]]
           ELSE [ok |-> TRUE, params |-> [params EXCEPT !.port = PyInt(int(port).val)],
                 error |-> NoError]
      ELSE [ok |-> TRUE, params |-> params, error |-> NoError]

\* ------------------------------------------------- db_checker.py, in parts
\* lines 22-28: Kodi major version -> expected schema version of each kind
KODI_DB_VERSION_MAP ==
  21 :> [MyVideos |-> << "1", "2", "2" >>, MyMusic |-> << "8", "4" >>] @@
  20 :> [MyVideos |-> << "1", "2", "1" >>, MyMusic |-> << "8", "2" >>] @@
  19 :> [MyVideos |-> << "1", "1", "9" >>, MyMusic |-> << "8", "2" >>] @@
  18 :> [MyVideos |-> << "1", "1", "6" >>, MyMusic |-> << "7", "2" >>] @@
  17 :> [MyVideos |-> << "1", "0", "7" >>, MyMusic |-> << "6", "0" >>]

\* lines 98-100
get_kodi_db_names == << "MyVideos", "MyMusic" >>

\* the characters of a prefix
PrefixChars == [MyVideos |-> MyVideos, MyMusic |-> MyMusic]

EmptyDict == [db \in {} |-> <<>>]

\* s.split(sep)[0]: the text before the first separator
RECURSIVE split_first(_, _)
split_first(s, sep) ==
  IF s = <<>> \/ Head(s) = sep THEN <<>>
  ELSE << Head(s) >> \o split_first(Tail(s), sep)

\* s.replace(old, ""): every occurrence of old removed
RECURSIVE replace_with_empty(_, _)
replace_with_empty(s, old) ==
  IF s = <<>> THEN <<>>
  ELSE IF startswith(s, old)
       THEN replace_with_empty(SubSeq(s, Len(old) + 1, Len(s)), old)
       ELSE << Head(s) >> \o replace_with_empty(Tail(s), old)

\* line 43: the exceptions the except clause of _parse_kodi_major names
ParseCatches_index_only == {"IndexError"}
ParseCatches == {"IndexError", "ValueError"}

\* lines 38-44: what the call raises ("none" if it returns) and returns
_parse_kodi_major(version) ==
  IF ~Truthy(version) THEN [exc |-> "none", ret |-> PyNone]
  ELSE LET r == int_of_str(split_first(version.s, "."))
       IN  IF r.exc = "none" THEN [exc |-> "none", ret |-> PyInt(r.val)]
           ELSE IF r.exc \in ParseCatches
                THEN [exc |-> "none", ret |-> PyNone]
                ELSE [exc |-> r.exc, ret |-> PyNone]

\* sorted() of a set of integers
RECURSIVE sorted_ints(_)
sorted_ints(S) ==
  IF S = {} THEN <<>>
  ELSE LET last == CHOOSE x \in S : \A y \in S : y <= x
       IN  Append(sorted_ints(S \ {last}), last)

\* the loop with > in place of >=
RECURSIVE ScanMajors_strict(_, _, _, _)
ScanMajors_strict(sorted_majors, i, v, chosen) ==
  IF i > Len(sorted_majors) THEN chosen
  ELSE IF v > sorted_majors[i]
       THEN ScanMajors_strict(sorted_majors, i + 1, v, sorted_majors[i])
       ELSE chosen

\* lines 54-59: the loop over sorted_majors
RECURSIVE ScanMajors(_, _, _, _)
ScanMajors(sorted_majors, i, v, chosen) ==
  IF i > Len(sorted_majors) THEN chosen
  ELSE IF v >= sorted_majors[i]
       THEN ScanMajors(sorted_majors, i + 1, v, sorted_majors[i])
       ELSE chosen

\* a version below every key is treated as an unknown one
ChosenMajor_unknown_below(m) ==
  LET sorted_majors == sorted_ints(DOMAIN KODI_DB_VERSION_MAP)
      greatest == sorted_majors[Len(sorted_majors)]
  IN  IF m = PyNone \/ m.n < sorted_majors[1] THEN greatest
      ELSE IF m.n >= greatest THEN greatest
      ELSE ScanMajors(sorted_majors, 1, m.n, sorted_majors[1])
\* lines 50-61: the key of the map the lookup settles on
ChosenMajor(m) ==
  LET sorted_majors == sorted_ints(DOMAIN KODI_DB_VERSION_MAP)
      greatest == sorted_majors[Len(sorted_majors)]
  IN  IF m = PyNone THEN greatest
      ELSE IF m.n >= greatest THEN greatest
      ELSE ScanMajors(sorted_majors, 1, m.n, sorted_majors[1])

\* lines 47-62
_expected_versions_for(m) ==
  IF DOMAIN KODI_DB_VERSION_MAP = {} THEN EmptyDict
  ELSE KODI_DB_VERSION_MAP[ChosenMajor(m)]

\* lines 86-95: the first word of System.BuildVersion; "0.0" when the label
\* cannot be read
get_kodi_version(label) ==
  IF label = PyNone THEN PyStr(<< "0", ".", "0" >>)
  ELSE PyStr(split_first(label.s, " "))

\* lines 103-115: prefix -> expected version, "0" for a prefix without one
get_kodi_db_info(version) ==
  LET versions == _expected_versions_for(_parse_kodi_major(version).ret)
  IN  [prefix \in Range(get_kodi_db_names) |->
         IF prefix \in DOMAIN versions THEN versions[prefix] ELSE << "0" >>]

\* lines 72-79: SHOW DATABASES LIKE '<prefix>%' for both prefixes; the
\* version of a name is the name with the prefix taken out
DiscoveredNames(dbs) ==
  { db \in dbs : \E i \in 1..Len(get_kodi_db_names) :
      LikeMatch(PrefixChars[get_kodi_db_names[i]] \o << "%" >>, db) }

PrefixOf(db) ==
  IF startswith(db, MyVideos) THEN "MyVideos"
  ELSE IF startswith(db, MyMusic) THEN "MyMusic"
  ELSE "none"

\* lines 65-83: {} when the connection fails, as when nothing matches
get_existing_kodi_dbs(up, dbs) ==
  IF ~up THEN EmptyDict
  ELSE [db \in DiscoveredNames(dbs) |->
          replace_with_empty(db, PrefixChars[PrefixOf(db)])]

\* a suffix that is no number is let through
is_version_compatible_lenient(db_name, kodi_version) ==
  LET expected == _expected_versions_for(_parse_kodi_major(kodi_version).ret)
      prefix == PrefixOf(db_name)
  IN  IF prefix = "none" THEN FALSE
      ELSE LET db_version ==
                 int_of_str(replace_with_empty(db_name, PrefixChars[prefix]))
           IN  IF db_version.exc = "ValueError" THEN TRUE
               ELSE IF prefix \notin DOMAIN expected THEN TRUE
               ELSE IF int_of_str(expected[prefix]).exc = "ValueError"
                    THEN TRUE
                    ELSE db_version.val >= int_of_str(expected[prefix]).val

\* a database at exactly the expected version does not pass
is_version_compatible_strict(db_name, kodi_version) ==
  LET expected == _expected_versions_for(_parse_kodi_major(kodi_version).ret)
      prefix == PrefixOf(db_name)
  IN  IF prefix = "none" THEN FALSE
      ELSE LET db_version ==
                 int_of_str(replace_with_empty(db_name, PrefixChars[prefix]))
           IN  IF db_version.exc = "ValueError" THEN FALSE
               ELSE IF prefix \notin DOMAIN expected THEN TRUE
               ELSE IF int_of_str(expected[prefix]).exc = "ValueError"
                    THEN TRUE
                    ELSE db_version.val > int_of_str(expected[prefix]).val
\* lines 118-141
is_version_compatible(db_name, kodi_version) ==
  LET expected == _expected_versions_for(_parse_kodi_major(kodi_version).ret)
      prefix == PrefixOf(db_name)
  IN  IF prefix = "none" THEN FALSE
      ELSE LET db_version ==
                 int_of_str(replace_with_empty(db_name, PrefixChars[prefix]))
           IN  IF db_version.exc = "ValueError" THEN FALSE
               ELSE IF prefix \notin DOMAIN expected THEN TRUE
               ELSE IF int_of_str(expected[prefix]).exc = "ValueError"
                    THEN TRUE
                    ELSE db_version.val >= int_of_str(expected[prefix]).val

NoResult == [kind |-> "none", dbs |-> EmptyDict]

\* lines 150-161, from the three values of lines 146-148
Classify(found, version, info) ==
  IF DOMAIN found = {}
  THEN [kind |-> "error", dbs |-> EmptyDict]
  ELSE LET incompatible ==
             { db \in DOMAIN found :
                 /\ (IF startswith(db, MyVideos) THEN "MyVideos"
                     ELSE "MyMusic") \in DOMAIN info
                 /\ ~is_version_compatible(db, version) }
       IN  IF incompatible # {}
           THEN [kind |-> "incompatible",
                 dbs |-> [db \in incompatible |-> found[db]]]
           ELSE [kind |-> "compatible", dbs |-> found]

\* ------------------------------------- inputs of _migrate_kodi_library
Blank == PyStr(<< " " >>)

\* a library section: each name key absent or set (the first also blank, or
\* with a blank to strip), the version absent, blank, a str or an int
LibraryConfigs ==
  { [database |-> d, name |-> n, dbname |-> b, version |-> v] :
      d \in {PyNone, Blank, PyStr(<< " ", "x" >>)},
      n \in {PyNone, PyStr(<< "y" >>)},
      b \in {PyNone, PyStr(<< "z" >>)},
      v \in {PyNone, Blank, PyStr(<< "1" >>), PyInt(121)} }

NoConfig == [key \in ConfigKeys |-> PyNone]

\* connection details: each required key absent, empty or set; the port
\* absent, an int, a str of digits or a str that is no number
ServerParams ==
  { [host |-> h, user |-> u, password |-> p, port |-> q] :
      h \in {PyNone, PyStr(<<>>), PyStr(<< "h" >>)},
      u \in {PyStr(<<>>), PyStr(<< "u" >>)},
      p \in {PyNone, PyStr(<< "p" >>)},
      q \in {PyNone, PyInt(3306), PyStr(<< "3", "3", "0", "6" >>),
             PyStr(<< "x" >>)} }

NoServerParams == [key \in ParamKeys |-> PyNone]

\* the library files the database folder may hold
LibraryFiles ==
  { [folder |-> "Database", name |-> MyVideos \o << "9", "9" >> \o DotDb],
    [folder |-> "Database", name |-> MyVideos \o << "1", "0", "7" >> \o DotDb],
    [folder |-> "Database", name |-> MyMusic \o << "8", "2" >> \o DotDb] }

\* the pattern of the wizard, and the folder alone
Patterns ==
  { [folder |-> "special://database",
     filename |-> MyVideos \o << "*" >> \o DotDb],
    [folder |-> "special://database", filename |-> <<>>] }

\* ------------------------------------------------------------------ Init
\* the wrapper is not in use
LibUnused ==
  /\ library_config = NoConfig
  /\ sqlite_pattern = [folder |-> "special://database", filename |-> <<>>]
  /\ server_params = NoServerParams
  /\ files = {}
  /\ kodi_prefix = MyVideos
  /\ target_database = PyNone
  /\ sqlite_path = PyNone
  /\ mysql_params = NoParams
  /\ error = NoError

\* the compatibility check is not in use
CheckerUnused ==
  /\ build_version = PyNone
  /\ mysql_up = FALSE
  /\ mysql_dbs = {}
  /\ cpc = "off"
  /\ existing = EmptyDict
  /\ kodi_ver = PyNone
  /\ major = PyNone
  /\ expected_info = EmptyDict
  /\ check_result = NoResult

\* the two libraries of the wizard
Libraries == {"video", "music"}

\* the locals last_host, last_port, last_user, last_password of
\* _collect_connection_details as it starts
FirstDetails ==
  [host |-> PyStr(<<>>), user |-> PyStr(<<>>), password |-> PyStr(<<>>),
   port |-> PyInt(3306)]

\* the wizard is not in use
WizardUnused ==
  /\ server_up = FALSE
  /\ mysql_module = FALSE
  /\ account_password = <<>>
  /\ check_outcome = "compatible"
  /\ migrate_outcome = [library \in Libraries |-> "ok"]
  /\ wpc = "off"
  /\ mode = "none"
  /\ details = FirstDetails
  /\ connection = NoServerParams
  /\ check_shown = "none"
  /\ video_section = NoConfig
  /\ music_section = NoConfig
  /\ migrate_opts = [migrate_video |-> FALSE, migrate_music |-> FALSE]
  /\ attempted = {}
  /\ succeeded = {}
  /\ shown_error = [library \in Libraries |-> NoError]
  /\ written = FALSE

Init ==
  /\ server \in {"ok", "down", "no_create", "db_denied"}
  /\ srcFile \in {"ok", "missing", "corrupt"}
  /\ (server = "ok" \/ srcFile = "ok")
  /\ sqlite_master \in Catalogs
  /\ srcRows \in [TableNames -> SrcRowSeqs]
  \* rows that are never read are left out: those of a table whose SELECT
  \* does not parse, and the whole catalog when the call ends before it
  \* reads the source
  /\ \A t \in TableNames :
       (t \notin Range(sqlite_master) \/ ~SelectParses(t)) => srcRows[t] = <<>>
  /\ (srcFile # "ok" \/ server # "ok") => sqlite_master = <<>>
  /\ dbExists \in BOOLEAN
  /\ tgtTables \in SUBSET TableNames
  /\ ~dbExists => tgtTables = {}
  /\ tgtMeta \in [TableNames -> TableMetas]
  \* key, columns and commit of a table no batch is run on are unobservable
  /\ \A t \in TableNames :
       (t \notin tgtTables \/ t \notin Range(sqlite_master) \/ srcRows[t] = <<>>)
         => tgtMeta[t] = DefaultMeta
  \* a target table is empty or holds the rows of one earlier import
  /\ \E ks \in SUBSET (1..MaxOldKey) :
       committed \in [TableNames -> {EmptyBag, OldRowBag(ks)}]
  /\ \A t \in TableNames : t \notin tgtTables => committed[t] = EmptyBag
  /\ view = committed
  /\ pc = "idle"
  /\ run = 0
  /\ conns = {}
  /\ tables = <<>>
  /\ idx = 0
  /\ rows = <<>>
  /\ migrated_tables = 0
  /\ log = NoLog
  /\ raised = "none"
  /\ result = "none"
  /\ tgt0 = committed
  /\ LibUnused
  /\ CheckerUnused
  /\ WizardUnused

\* --------------------------------------------------------------- actions
\* The caller invokes migrate_database (again): locals are fresh.
Call ==
  /\ pc \in {"idle", "done"}
  /\ run < MaxRuns
  /\ run' = run + 1
  /\ pc' = "check_path"
  /\ tables' = <<>>
  /\ idx' = 0
  /\ rows' = <<>>
  /\ migrated_tables' = 0
  /\ log' = NoLog
  /\ raised' = "none"
  /\ result' = "none"
  /\ tgt0' = committed
  /\ UNCHANGED << envVars, wizVars, libVars, chkVars, dbExists, committed, view, conns >>

\* lines 156-158: the source path must exist
CheckPath ==
  /\ pc = "check_path"
  /\ IF srcFile = "missing"
     THEN /\ pc' = "done"
          /\ result' = "False"
          /\ raised' = "source_not_found"
     ELSE /\ pc' = "provision_connect"
          /\ UNCHANGED << result, raised >>
  /\ UNCHANGED << envVars, wizVars, libVars, chkVars, dbExists, committed, view, run, conns, tables, idx,
                  rows, migrated_tables, log, tgt0 >>

\* line 214: _ensure_database_exists opens a server-level connection
ProvisionConnect ==
  /\ pc = "provision_connect"
  /\ IF server = "down"
     THEN /\ pc' = "done"
          /\ result' = "False"
          /\ raised' = "connect"
          /\ UNCHANGED conns
     ELSE /\ pc' = "provision_create"
          /\ conns' = conns \cup {"provision"}
          /\ UNCHANGED << result, raised >>
  /\ UNCHANGED << envVars, wizVars, libVars, chkVars, dbExists, committed, view, run, tables, idx, rows,
                  migrated_tables, log, tgt0 >>

\* lines 215-220: CREATE DATABASE IF NOT EXISTS, commit
ProvisionCreate ==
  /\ pc = "provision_create"
  /\ IF server = "no_create"
     THEN /\ raised' = "connect"
          /\ UNCHANGED dbExists
     ELSE /\ dbExists' = TRUE
          /\ UNCHANGED raised
  /\ pc' = "provision_close"
  /\ UNCHANGED << envVars, wizVars, libVars, chkVars, committed, view, run, conns, tables, idx, rows,
                  migrated_tables, log, result, tgt0 >>

\* the exception of _ensure_database_exists is swallowed
ProvisionClose_swallows ==
  /\ pc = "provision_close"
  /\ conns' = conns \ {"provision"}
  /\ pc' = "connect"
  /\ UNCHANGED << envVars, wizVars, libVars, chkVars, dbExists, committed, view, run,
                  tables, idx, rows, migrated_tables, log, raised, result,
                  tgt0 >>

\* line 214: closing(conn) leaves the with block, normally or by exception;
\* lines 170-172 turn the exception into a False return
ProvisionClose ==
  /\ pc = "provision_close"
  /\ conns' = conns \ {"provision"}
  /\ IF raised = "none"
     THEN /\ pc' = "connect"
          /\ UNCHANGED result
     ELSE /\ pc' = "done"
          /\ result' = "False"
  /\ UNCHANGED << envVars, wizVars, libVars, chkVars, dbExists, committed, view, run, tables, idx, rows,
                  migrated_tables, log, raised, tgt0 >>

\* line 169: connect to the target database
Connect ==
  /\ pc = "connect"
  /\ IF server = "db_denied"
     THEN /\ pc' = "done"
          /\ result' = "False"
          /\ raised' = "connect"
          /\ UNCHANGED conns
     ELSE /\ pc' = "open_source"
          /\ conns' = conns \cup {"mysql"}
          /\ UNCHANGED << result, raised >>
  /\ UNCHANGED << envVars, wizVars, libVars, chkVars, dbExists, committed, view, run, tables, idx, rows,
                  migrated_tables, log, tgt0 >>

\* lines 176-178: sqlite3.connect and the two cursors
OpenSource ==
  /\ pc = "open_source"
  /\ conns' = conns \cup {"sqlite"}
  /\ pc' = "iter"
  /\ UNCHANGED << envVars, wizVars, libVars, chkVars, dbExists, committed, view, run, tables, idx, rows,
                  migrated_tables, log, raised, result, tgt0 >>

\* lines 179, 224-227: the generator's first step runs the catalog query and
\* fetches the whole list
IterTables ==
  /\ pc = "iter"
  /\ IF srcFile = "corrupt"
     THEN /\ raised' = "iter"
          /\ pc' = "close_source"
          /\ UNCHANGED << tables, idx >>
     ELSE /\ tables' = _iter_sqlite_tables(sqlite_master)
          /\ idx' = 1
          /\ pc' = "loop"
          /\ UNCHANGED raised
  /\ UNCHANGED << envVars, wizVars, libVars, chkVars, dbExists, committed, view, run, conns, rows,
                  migrated_tables, log, result, tgt0 >>

\* lines 180-182: the table is missing in MySQL: warn and continue
SkipTable ==
  /\ pc = "loop"
  /\ idx <= Len(tables)
  /\ ~_mysql_table_exists(tgtTables, tables[idx])
  /\ log' = [log EXCEPT ![tables[idx]] = "skipped"]
  /\ idx' = idx + 1
  /\ UNCHANGED << envVars, wizVars, libVars, chkVars, dbExists, committed, view, pc, run, conns, tables,
                  rows, migrated_tables, raised, result, tgt0 >>

\* the read that counts and logs a table without rows as migrated
FetchRows_counts_empty ==
  /\ pc = "loop"
  /\ idx <= Len(tables)
  /\ _mysql_table_exists(tgtTables, tables[idx])
  /\ IF ~SelectParses(tables[idx])
     THEN /\ raised' = "fetch"
          /\ pc' = "close_source"
          /\ UNCHANGED << rows, idx, migrated_tables, log >>
     ELSE IF srcRows[tables[idx]] = <<>>
     THEN /\ idx' = idx + 1
          /\ migrated_tables' = migrated_tables + 1
          /\ log' = [log EXCEPT ![tables[idx]] = "migrated"]
          /\ UNCHANGED << rows, pc, raised >>
     ELSE /\ rows' = srcRows[tables[idx]]
          /\ pc' = "insert"
          /\ UNCHANGED << idx, raised, migrated_tables, log >>
  /\ UNCHANGED << envVars, wizVars, libVars, chkVars, dbExists, committed, view, run, conns, tables,
                  result, tgt0 >>

\* lines 180, 183-188: the table exists; read its rows
FetchRows ==
  /\ pc = "loop"
  /\ idx <= Len(tables)
  /\ _mysql_table_exists(tgtTables, tables[idx])
  /\ IF ~SelectParses(tables[idx])
     THEN /\ raised' = "fetch"
          /\ pc' = "close_source"
          /\ UNCHANGED << rows, idx >>
     ELSE IF srcRows[tables[idx]] = <<>>
     THEN /\ idx' = idx + 1
          /\ UNCHANGED << rows, pc, raised >>
     ELSE /\ rows' = srcRows[tables[idx]]
          /\ pc' = "insert"
          /\ UNCHANGED << idx, raised >>
  /\ UNCHANGED << envVars, wizVars, libVars, chkVars, dbExists, committed, view, run, conns, tables,
                  migrated_tables, log, result, tgt0 >>

\* lines 186-190: build the statement from the first row's columns, run the batch
Insert ==
  /\ pc = "insert"
  /\ LET sql == _build_insert_sql(tables[idx], RowColumns(rows[1]))
         res == ExecuteMany(sql, rows, view)
     IN  /\ view' = res.view
         /\ pc' = IF res.ok THEN "commit" ELSE "rollback"
  /\ UNCHANGED << envVars, wizVars, libVars, chkVars, dbExists, committed, run, conns, tables, idx, rows,
                  migrated_tables, log, raised, result, tgt0 >>

\* the commit with the counter incremented before mysql_conn.commit()
Commit_counts_first ==
  /\ pc = "commit"
  /\ migrated_tables' = migrated_tables + 1
  /\ IF tgtMeta[tables[idx]].commitOK
     THEN /\ committed' = view
          /\ log' = [log EXCEPT ![tables[idx]] = "migrated"]
          /\ idx' = idx + 1
          /\ rows' = <<>>
          /\ pc' = "loop"
     ELSE /\ pc' = "rollback"
          /\ UNCHANGED << committed, log, idx, rows >>
  /\ UNCHANGED << envVars, wizVars, libVars, chkVars, dbExists, view, run, conns, tables, raised, result, tgt0 >>

\* the commit put off to the end of the loop
Commit_deferred ==
  /\ pc = "commit"
  /\ IF tgtMeta[tables[idx]].commitOK
     THEN /\ committed' = committed
          /\ migrated_tables' = migrated_tables + 1
          /\ log' = [log EXCEPT ![tables[idx]] = "migrated"]
          /\ idx' = idx + 1
          /\ rows' = <<>>
          /\ pc' = "loop"
     ELSE /\ pc' = "rollback"
          /\ UNCHANGED << committed, migrated_tables, log, idx, rows >>
  /\ UNCHANGED << envVars, wizVars, libVars, chkVars, dbExists, view, run, conns, tables, raised, result, tgt0 >>
\* lines 191-193: commit, count, log
Commit ==
  /\ pc = "commit"
  /\ IF tgtMeta[tables[idx]].commitOK
     THEN /\ committed' = view
          /\ migrated_tables' = migrated_tables + 1
          /\ log' = [log EXCEPT ![tables[idx]] = "migrated"]
          /\ idx' = idx + 1
          /\ rows' = <<>>
          /\ pc' = "loop"
     ELSE /\ pc' = "rollback"
          /\ UNCHANGED << committed, migrated_tables, log, idx, rows >>
  /\ UNCHANGED << envVars, wizVars, libVars, chkVars, dbExists, view, run, conns, tables, raised, result, tgt0 >>

\* the handler without mysql_conn.rollback()
Rollback_keeps_writes ==
  /\ pc = "rollback"
  /\ log' = [log EXCEPT ![tables[idx]] = "failed"]
  /\ idx' = idx + 1
  /\ rows' = <<>>
  /\ pc' = "loop"
  /\ UNCHANGED << envVars, wizVars, libVars, chkVars, dbExists, committed, view, run, conns, tables,
                  migrated_tables, raised, result, tgt0 >>

\* lines 194-196: roll back, log the failure, go on with the next table
Rollback ==
  /\ pc = "rollback"
  /\ view' = committed
  /\ log' = [log EXCEPT ![tables[idx]] = "failed"]
  /\ idx' = idx + 1
  /\ rows' = <<>>
  /\ pc' = "loop"
  /\ UNCHANGED << envVars, wizVars, libVars, chkVars, dbExists, committed, run, conns, tables,
                  migrated_tables, raised, result, tgt0 >>

\* line 179: the list is exhausted
LoopDone ==
  /\ pc = "loop"
  /\ idx > Len(tables)
  /\ pc' = "close_source"
  /\ UNCHANGED << envVars, wizVars, libVars, chkVars, dbExists, committed, view, run, conns, tables, idx,
                  rows, migrated_tables, log, raised, result, tgt0 >>

\* lines 176-178: both with blocks are left, normally or by exception;
\* lines 197-203: return True, or False from the except clause
CloseSource ==
  /\ pc = "close_source"
  /\ conns' = conns \ {"sqlite"}
  /\ result' = IF raised = "none" THEN "True" ELSE "False"
  /\ pc' = "finally"
  /\ UNCHANGED << envVars, wizVars, libVars, chkVars, dbExists, committed, view, run, tables, idx, rows,
                  migrated_tables, log, raised, tgt0 >>

\* the close placed on the success path instead of in a finally clause
Finally_success_only ==
  /\ pc = "finally"
  /\ conns' = IF raised = "none" THEN conns \ {"mysql"} ELSE conns
  /\ view' = committed
  /\ pc' = "done"
  /\ UNCHANGED << envVars, wizVars, libVars, chkVars, dbExists, committed, run, tables, idx, rows,
                  migrated_tables, log, raised, result, tgt0 >>

\* lines 204-208: mysql_conn.close(); what was not committed is discarded
Finally ==
  /\ pc = "finally"
  /\ conns' = conns \ {"mysql"}
  /\ view' = committed
  /\ pc' = "done"
  /\ UNCHANGED << envVars, wizVars, libVars, chkVars, dbExists, committed, run, tables, idx, rows,
                  migrated_tables, log, raised, result, tgt0 >>

Next ==
  \/ Call
  \/ CheckPath
  \/ ProvisionConnect
  \/ ProvisionCreate
  \/ ProvisionClose
  \/ Connect
  \/ OpenSource
  \/ IterTables
  \/ SkipTable
  \/ FetchRows
  \/ Insert
  \/ Commit
  \/ Rollback
  \/ LoopDone
  \/ CloseSource
  \/ Finally

Spec == Init /\ [][Next]_vars

\* ------------------------------------------------ _migrate_kodi_library
\* what migrate_database meets when the wrapper reaches it: the source file
\* there or gone, the target database absent, or present with a table
\* whose commit succeeds or raises
LibScenarios ==
  { [srcFile |-> "ok",      dbExists |-> FALSE, commitOK |-> TRUE],
    [srcFile |-> "missing", dbExists |-> FALSE, commitOK |-> TRUE],
    [srcFile |-> "ok",      dbExists |-> TRUE,  commitOK |-> TRUE],
    [srcFile |-> "ok",      dbExists |-> TRUE,  commitOK |-> FALSE] }

\* migrate_video_library or migrate_music_library has been called with any
\* inputs.  The server is up; what migrate_database meets is one source of
\* two tables, with a target that is absent, or present with a table whose
\* commit succeeds or raises.  What a call that ends in the wrapper never
\* reads is left at one value.
InitLib ==
  /\ library_config \in LibraryConfigs
  /\ sqlite_pattern \in Patterns
  /\ server_params \in ServerParams
  /\ files \in SUBSET LibraryFiles
  /\ kodi_prefix \in {MyVideos, MyMusic}
  /\ target_database = PyNone
  /\ sqlite_path = PyNone
  /\ mysql_params = NoParams
  /\ error = NoError
  /\ server = "ok"
  /\ sqlite_master = << << "a", "b" >>, << "a", "-" >> >>
  /\ srcRows = [t \in TableNames |->
                  IF t = << "a", "b" >> THEN << SrcRow(1) >> ELSE <<>>]
  /\ \E scenario \in
          IF /\ Truthy(_resolve_database_name(library_config, kodi_prefix))
             /\ Truthy(_resolve_sqlite_path(files, sqlite_pattern,
                                            kodi_prefix))
             /\ _build_mysql_params(server_params, PyNone).ok
          THEN LibScenarios
          ELSE {[srcFile |-> "ok", dbExists |-> FALSE, commitOK |-> TRUE]} :
       /\ srcFile = scenario.srcFile
       /\ dbExists = scenario.dbExists
       /\ tgtTables = IF scenario.dbExists THEN {<< "a", "b" >>} ELSE {}
       /\ tgtMeta = [t \in TableNames |->
                       IF t = << "a", "b" >>
                       THEN [DefaultMeta EXCEPT !.commitOK = scenario.commitOK]
                       ELSE DefaultMeta]
  /\ committed = [t \in TableNames |-> EmptyBag]
  /\ view = committed
  /\ pc = "resolve_name"
  /\ run = 0
  /\ conns = {}
  /\ tables = <<>>
  /\ idx = 0
  /\ rows = <<>>
  /\ migrated_tables = 0
  /\ log = NoLog
  /\ raised = "none"
  /\ result = "none"
  /\ tgt0 = committed
  /\ CheckerUnused
  /\ WizardUnused

\* lines 81-84: no database name, no migration
ResolveName ==
  /\ pc = "resolve_name"
  /\ target_database' = _resolve_database_name(library_config, kodi_prefix)
  /\ IF ~Truthy(target_database')
     THEN /\ error' = [msg |-> "Missing database name for migration.",
                       fields |-> <<>>]
          /\ result' = "False"
          /\ pc' = "done"
     ELSE /\ pc' = "resolve_path"
          /\ UNCHANGED << error, result >>
  /\ UNCHANGED << envVars, wizVars, libIn, chkVars, targetVars, migrateLocals,
                  sqlite_path, mysql_params >>

\* the source is looked up after the connection details are validated
ResolvePath_unchecked ==
  /\ pc = "resolve_path"
  /\ sqlite_path' = _resolve_sqlite_path(files, sqlite_pattern, kodi_prefix)
  /\ pc' = "build_params"
  /\ UNCHANGED << error, result >>
  /\ UNCHANGED << envVars, wizVars, libIn, chkVars, targetVars, migrateLocals,
                  target_database, mysql_params >>

\* lines 86-89: no source file, no migration
ResolvePath ==
  /\ pc = "resolve_path"
  /\ sqlite_path' = _resolve_sqlite_path(files, sqlite_pattern, kodi_prefix)
  /\ IF ~Truthy(sqlite_path')
     THEN /\ error' = [msg |-> "Could not locate local SQLite library.",
                       fields |-> <<>>]
          /\ result' = "False"
          /\ pc' = "done"
     ELSE /\ pc' = "build_params"
          /\ UNCHANGED << error, result >>
  /\ UNCHANGED << envVars, wizVars, libIn, chkVars, targetVars, migrateLocals,
                  target_database, mysql_params >>

\* lines 91-93: incomplete connection details, no migration
BuildParams ==
  /\ pc = "build_params"
  /\ LET built == _build_mysql_params(server_params, target_database)
     IN  /\ mysql_params' = built.params
         /\ IF ~built.ok
            THEN /\ error' = built.error
                 /\ result' = "False"
                 /\ pc' = "done"
            ELSE /\ pc' = "call_migrate"
                 /\ UNCHANGED << error, result >>
  /\ UNCHANGED << envVars, wizVars, libIn, chkVars, targetVars, migrateLocals,
                  target_database, sqlite_path >>

\* line 95: migrate_database(sqlite_path, mysql_params)
CallMigrate ==
  /\ pc = "call_migrate"
  /\ run < MaxRuns
  /\ run' = run + 1
  /\ pc' = "check_path"
  /\ tables' = <<>>
  /\ idx' = 0
  /\ rows' = <<>>
  /\ migrated_tables' = 0
  /\ log' = NoLog
  /\ raised' = "none"
  /\ result' = "none"
  /\ tgt0' = committed
  /\ UNCHANGED << envVars, wizVars, libVars, chkVars, targetVars >>

NextLib ==
  \/ ResolveName
  \/ ResolvePath
  \/ BuildParams
  \/ CallMigrate
  \/ CheckPath
  \/ ProvisionConnect
  \/ ProvisionCreate
  \/ ProvisionClose
  \/ Connect
  \/ OpenSource
  \/ IterTables
  \/ SkipTable
  \/ FetchRows
  \/ Insert
  \/ Commit
  \/ Rollback
  \/ LoopDone
  \/ CloseSource
  \/ Finally

SpecLib == InitLib /\ [][NextLib]_vars

\* ------------------------------------------------------- check_kodi_dbs
MaxMajor == 23    \* Kodi major versions 0..MaxMajor are asked about

\* System.BuildVersion: a version and a build tag, a version alone, or a
\* text without a leading number
BuildLabels ==
  { PyStr(str_of_int(v) \o << ".", "1", " ", "X" >>) : v \in 0..MaxMajor }
  \cup
  { PyStr(<<>>), PyStr(<< " ", "2", "0" >>), PyStr(<< "2", "0" >>),
    PyStr(<< "2", "0", "-", "r", "c" >>), PyStr(<< ".", "5" >>),
    PyStr(<< "x", ".", "1" >>), PyStr(<< "-", "1", ".", "0" >>) }

\* the databases a server may hold
ServerDbs ==
  { MyVideos \o << "1", "1", "9" >>, MyVideos \o << "1", "2", "1" >>,
    MyVideos \o << "1", "2", "2" >>, MyMusic \o << "8", "2" >>,
    MyVideos \o << "X" >>, << "x", "y", "z" >> }

\* the state migrate_database is left in while it is not in use
MigrateUnused ==
  /\ server = "ok"
  /\ srcFile = "ok"
  /\ sqlite_master = <<>>
  /\ srcRows = [t \in TableNames |-> <<>>]
  /\ dbExists = FALSE
  /\ tgtTables = {}
  /\ tgtMeta = [t \in TableNames |-> DefaultMeta]
  /\ committed = [t \in TableNames |-> EmptyBag]
  /\ view = committed
  /\ pc = "idle"
  /\ run = 0
  /\ conns = {}
  /\ tables = <<>>
  /\ idx = 0
  /\ rows = <<>>
  /\ migrated_tables = 0
  /\ log = NoLog
  /\ raised = "none"
  /\ result = "none"
  /\ tgt0 = committed

\* check_kodi_dbs has been called, on any server and any Kodi build; a label
\* that cannot be read is None
InitCheck ==
  /\ build_version \in BuildLabels \cup {PyNone}
  /\ mysql_up \in BOOLEAN
  /\ mysql_dbs \in SUBSET ServerDbs
  /\ cpc = "get_existing"
  /\ existing = EmptyDict
  /\ kodi_ver = PyNone
  /\ major = PyNone
  /\ expected_info = EmptyDict
  /\ check_result = NoResult
  /\ MigrateUnused
  /\ LibUnused
  /\ WizardUnused

\* line 146
GetExisting ==
  /\ cpc = "get_existing"
  /\ existing' = get_existing_kodi_dbs(mysql_up, mysql_dbs)
  /\ cpc' = "get_version"
  /\ UNCHANGED << build_version, mysql_up, mysql_dbs, kodi_ver, major,
                  expected_info, check_result >>
  /\ UNCHANGED << envVars, wizVars, libVars, targetVars, migrateLocals, pc, result >>

\* line 147
GetVersion ==
  /\ cpc = "get_version"
  /\ kodi_ver' = get_kodi_version(build_version)
  /\ cpc' = "get_info"
  /\ UNCHANGED << build_version, mysql_up, mysql_dbs, existing, major,
                  expected_info, check_result >>
  /\ UNCHANGED << envVars, wizVars, libVars, targetVars, migrateLocals, pc, result >>

\* line 148: get_kodi_db_info parses the version anew; an exception that
\* _parse_kodi_major lets through ends check_kodi_dbs
GetInfo ==
  /\ cpc = "get_info"
  /\ LET parsed == _parse_kodi_major(kodi_ver)
     IN  IF parsed.exc = "none"
         THEN /\ major' = parsed.ret
              /\ expected_info' = get_kodi_db_info(kodi_ver)
              /\ cpc' = "classify"
              /\ UNCHANGED check_result
         ELSE /\ check_result' = [kind |-> "raised", dbs |-> EmptyDict]
              /\ cpc' = "done"
              /\ UNCHANGED << major, expected_info >>
  /\ UNCHANGED << build_version, mysql_up, mysql_dbs, existing, kodi_ver >>
  /\ UNCHANGED << envVars, wizVars, libVars, targetVars, migrateLocals, pc, result >>

\* lines 150-161
ClassifyDbs ==
  /\ cpc = "classify"
  /\ check_result' = Classify(existing, kodi_ver, expected_info)
  /\ cpc' = "done"
  /\ UNCHANGED << build_version, mysql_up, mysql_dbs, existing, kodi_ver,
                  major, expected_info >>
  /\ UNCHANGED << envVars, wizVars, libVars, targetVars, migrateLocals, pc, result >>

NextCheck ==
  \/ GetExisting
  \/ GetVersion
  \/ GetInfo
  \/ ClassifyDbs

SpecCheck == InitCheck /\ [][NextCheck]_vars


\* ------------------------------------------------- vocabulary of the claims
Ended == pc = "done"

\* the call got as far as the table loop
LoopEntered == idx >= 1

\* the loop has dealt with position j: it is past it, or it is the
\* position whose read raised
Visited(j) == j < idx \/ (j = idx /\ raised = "fetch")

InBoth(t) == t \in Range(tables) /\ t \in tgtTables

\* some source row of t has the key of a row t held in the target at the call
KeyCollision(t) ==
  /\ t \in tgtTables
  /\ tgtMeta[t].keyed
  /\ \E i \in 1..Len(srcRows[t]) : HasKey(tgt0[t], srcRows[t][i].k)

\* every source row of t is in the target, or a row with its key is
HoldsSourceRows(t) ==
  \A i \in 1..Len(srcRows[t]) :
    IF tgtMeta[t].keyed THEN HasKey(committed[t], srcRows[t][i].k)
    ELSE BagIn(srcRows[t][i], committed[t])

\* nothing stands in the way of t's batch: same-named target table with the
\* source's columns, readable non-empty source table, working commit
Transferable(t) ==
  /\ InBoth(t)
  /\ SelectParses(t)
  /\ srcRows[t] # <<>>
  /\ AllColumns \subseteq tgtMeta[t].cols
  /\ tgtMeta[t].commitOK

\* ------------------------------------------------------------------ C1
\* C1: running the migration twice in succession leaves every target table
\* with exactly the rows one run left: the second run changes no table.
C1_Idempotent ==
  (Ended /\ run >= 2) => \A t \in TableNames : committed[t] = tgt0[t]

\* Supporting fact: where the table has a primary/unique key the second run
\* changes nothing.
KeyedIdempotent ==
  (Ended /\ run >= 2) =>
    \A t \in TableNames : tgtMeta[t].keyed => committed[t] = tgt0[t]

\* ------------------------------------------------------------------ C2
\* C2: a row the target held when the call started is never overwritten:
\* it is still there, as many times and with the same values, and where the
\* table has a key on k no other row with its key has been added (the
\* colliding source row is dropped).
C2_NoOverwrite ==
  \A t \in TableNames : \A r \in BagToSet(tgt0[t]) :
    /\ CopiesIn(r, committed[t]) >= CopiesIn(r, tgt0[t])
    /\ tgtMeta[t].keyed =>
         /\ CopiesIn(r, committed[t]) = CopiesIn(r, tgt0[t])
         /\ \A x \in BagToSet(committed[t]) : x.k = r.k => x = r

\* a run committed a keyed table one of whose source rows collides with an
\* old row of different values
C2_Witness ==
  /\ Ended
  /\ \E t \in TableNames :
       /\ log[t] = "migrated"
       /\ KeyCollision(t)
       /\ \E i \in 1..Len(srcRows[t]) : \E r \in BagToSet(tgt0[t]) :
            srcRows[t][i].k = r.k /\ srcRows[t][i] # r

C4_LaterTablesProcessed ==
  Ended =>
    \A i, j \in 1..Len(tables) :
      (i < j /\ log[tables[i]] = "failed") =>
        /\ Visited(j)
        /\ Transferable(tables[j]) => log[tables[j]] = "migrated"
        /\ \A h \in 1..(i - 1) :
             log[tables[h]] = "migrated" => HoldsSourceRows(tables[h])

\* ------------------------------------------------------------------ C5
\* C5: an error raised while one table is transferred, reading its rows
\* included, is a failure of that table only: it is recorded for the table,
\* the remaining tables are processed and the call returns success.
C5_TableErrorsAreTableLevel ==
  (Ended /\ LoopEntered) =>
    /\ result = "True"
    /\ idx = Len(tables) + 1
    /\ \A t \in Range(tables) :
         (_mysql_table_exists(tgtTables, t) /\ ~SelectParses(t)) => log[t] = "failed"

\* ------------------------------------------------------------------ C6
\* C6: a table of the source that the target lacks is skipped, not failed:
\* nothing is written for it, no rollback and no error is recorded for it,
\* and the call returns success.
C6_AbsentIsSkipped ==
  (Ended /\ LoopEntered) =>
    \A t \in Range(tables) :
      t \notin tgtTables =>
        /\ committed[t] = tgt0[t]
        /\ log[t] = "skipped"
        /\ result = "True"

C8_FalseOnlyForConnErrors ==
  Ended =>
    /\ LoopEntered => result = "True"
    /\ result = "False" => raised \in {"source_not_found", "connect", "iter"}

\* ------------------------------------------------------------------ C9
\* C9: the migrated-table count is the number of tables whose batch was
\* committed: tables skipped as absent and tables rolled back are not in it,
\* and a run that returns success reports exactly the transferable tables.
C9_CountIsCommitted ==
  /\ migrated_tables = Cardinality({ t \in TableNames : log[t] = "migrated" })
  /\ \A t \in TableNames :
       log[t] = "migrated" => (Transferable(t) /\ HoldsSourceRows(t))
  /\ (Ended /\ result = "True") =>
       migrated_tables = Cardinality({ t \in TableNames : Transferable(t) })

\* a successful run that skipped a table, rolled one back and committed one
C9_Witness ==
  /\ Ended
  /\ result = "True"
  /\ migrated_tables = 1
  /\ \E t, u \in Range(tables) : log[t] = "skipped" /\ log[u] = "failed"

\* ----------------------------------------------------------------- C10
\* C10: when the call has returned no connection is open, however it ended;
\* the provisioning connection is closed before the target database is
\* connected to.
C10_ConnectionsClosed ==
  /\ pc \in {"idle", "done"} => conns = {}
  /\ pc \notin {"provision_create", "provision_close"} => "provision" \notin conns

\* a call that opened both connections ended by an exception inside the loop
C10_Witness ==
  /\ Ended
  /\ raised = "fetch"
  /\ result = "False"
  /\ conns = {}

\* ----------------------------------------------------------------- C11
\* no file matches the source pattern, or the file is gone when
\* migrate_database looks for it
NoSourceFile ==
  \/ ~Truthy(_resolve_sqlite_path(files, sqlite_pattern, kodi_prefix))
  \/ srcFile = "missing"

\* C11: when no file matches the source pattern, or the source path does
\* not exist, the migration returns false, no connection to the server is
\* ever open and no step creates the database.
C11_NoSourceNoConnection ==
  /\ [](NoSourceFile => (conns = {} /\ (Ended => result = "False")))
  /\ [][NoSourceFile => dbExists' = dbExists]_vars

\* the folder holds library files, none matches, and the call has returned
C11_Witness ==
  /\ Ended
  /\ files # {}
  /\ error.msg = "Could not locate local SQLite library."
  /\ result = "False"
  /\ conns = {}
  /\ ~dbExists

\* ----------------------------------------------------------------- C12
\* the required connection details that are absent or empty
MissingDetails ==
  { key \in {"host", "user", "password"} :
      server_params[key] \in {PyNone, PyStr(<<>>)} }

\* a port is given and is no number
PortNotInteger ==
  /\ server_params["port"].ty = "str"
  /\ \E i \in 1..Len(server_params["port"].s) :
       ~IsDigit(server_params["port"].s[i])

C13_ProvisionedBeforeConnect ==
  /\ (pc = "connect" \/ "mysql" \in conns) =>
       /\ dbExists
       /\ server \notin {"down", "no_create"}
       /\ "provision" \notin conns
  /\ pc = "connect" => raised = "none"
  /\ (Ended /\ server \in {"down", "no_create"}) =>
       /\ result = "False"
       /\ raised = "connect"

\* the first call holds the connection to a database without tables
C13_Witness ==
  /\ "mysql" \in conns
  /\ run = 1
  /\ dbExists
  /\ tgtTables = {}
  /\ server = "ok"

\* ----------------------------------------------------------------- C14
\* the name keys that hold a non-blank str
NamedKeys ==
  { i \in 1..3 :
      LET value == library_config[<< "database", "name", "dbname" >>[i]]
      IN  value.ty = "str" /\ \E j \in 1..Len(value.s) : value.s[j] # " " }

\* a version is supplied and is not blank
HasVersion ==
  LET value == library_config["version"]
  IN  \/ value.ty = "int"
      \/ value.ty = "str" /\ \E j \in 1..Len(value.s) : value.s[j] # " "

\* C14: the database name _resolve_database_name returns is the explicit
\* name under the first of 'database', 'name', 'dbname' that holds a
\* non-blank one, without its leading and trailing blanks; failing that,
\* the prefix followed by the version when a non-blank version is given;
\* failing that, nothing, and then the migration returns false without
\* having resolved the source file or opened a connection.
C14_DatabaseNameResolved ==
  pc # "resolve_name" =>
    IF NamedKeys # {}
    THEN LET first == CHOOSE i \in NamedKeys : \A j \in NamedKeys : i <= j
             given == library_config[<< "database", "name", "dbname" >>[first]].s
         IN  /\ target_database.ty = "str"
             /\ target_database.s # <<>>
             /\ Head(target_database.s) # " "
             /\ target_database.s[Len(target_database.s)] # " "
             /\ \E a, b \in 0..Len(given) :
                  /\ given = [i \in 1..a |-> " "] \o target_database.s
                               \o [i \in 1..b |-> " "]
    ELSE IF HasVersion
    THEN target_database =
           PyStr(kodi_prefix \o str(library_config["version"]))
    ELSE /\ target_database = PyNone
         /\ pc = "done"
         /\ result = "False"
         /\ error.msg = "Missing database name for migration."
         /\ sqlite_path = PyNone
         /\ conns = {}
         /\ run = 0

\* 'database' is blank, so the name under 'name' is taken and the call goes
\* on to resolve the source file
C14_Witness ==
  /\ pc = "resolve_path"
  /\ library_config["database"] = Blank
  /\ library_config["dbname"] # PyNone
  /\ target_database = library_config["name"]
  /\ target_database # PyNone

\* ----------------------------------------------------------------- C15
\* the names of the files the source pattern matches
MatchingNames ==
  { f.name : f \in { g \in files :
      /\ g.folder = "Database"
      /\ GlobMatch(IF sqlite_pattern.filename = <<>>
                   THEN kodi_prefix \o << "*" >> \o DotDb
                   ELSE sqlite_pattern.filename, g.name) } }

\* the schema version a library file carries in its name
SuffixNumber(name) == DecimalValue(SelectSeq(name, IsDigit))

\* the path returned is the lexicographically greatest match
LexGreatestReturned ==
  (pc \notin {"resolve_name", "resolve_path"} /\ Truthy(sqlite_path)) =>
    /\ sqlite_path.s \in MatchingNames
    /\ \A m \in MatchingNames : m = sqlite_path.s \/ StrLess(m, sqlite_path.s)

\* C15: among the files matching the source pattern _resolve_sqlite_path
\* returns the lexicographically greatest, and that file is the newest one:
\* no match carries a higher version suffix.
C15_GreatestIsNewest ==
  (pc \notin {"resolve_name", "resolve_path"} /\ Truthy(sqlite_path)) =>
    /\ sqlite_path.s \in MatchingNames
    /\ \A m \in MatchingNames : m = sqlite_path.s \/ StrLess(m, sqlite_path.s)
    /\ \A m \in MatchingNames : SuffixNumber(m) <= SuffixNumber(sqlite_path.s)

\* ----------------------------------------------------------------- C16
\* the expected versions are known: get_kodi_db_info has returned
InfoKnown == cpc = "classify" \/ (cpc = "done" /\ check_result.kind # "raised")

\* the key the lookup is to settle on for major version v
KeyFor(v) ==
  LET keys == DOMAIN KODI_DB_VERSION_MAP
  IN  IF \E k \in keys : k <= v
      THEN CHOOSE k \in keys : k <= v /\ \A j \in keys : j <= v => j <= k
      ELSE CHOOSE k \in keys : \A j \in keys : k <= j

\* C16: for an integer major version v the expected versions are the map
\* entry of the greatest key <= v, which is the entry of the greatest key
\* when v is above every key, and the entry of the smallest key when v is
\* below every key.
C16_GreatestKeyBelow ==
  (InfoKnown /\ major.ty = "int") =>
    /\ _expected_versions_for(major) = KODI_DB_VERSION_MAP[KeyFor(major.n)]
    /\ \A prefix \in {"MyVideos", "MyMusic"} :
         expected_info[prefix] = KODI_DB_VERSION_MAP[KeyFor(major.n)][prefix]

\* a key of the map below the greatest one has been looked up: the entry is
\* its own, not that of the next key
C16_Witness ==
  /\ InfoKnown
  /\ major.ty = "int"
  /\ major.n \in DOMAIN KODI_DB_VERSION_MAP
  /\ major.n + 1 \in DOMAIN KODI_DB_VERSION_MAP
  /\ expected_info = KODI_DB_VERSION_MAP[major.n]
  /\ expected_info # KODI_DB_VERSION_MAP[major.n + 1]

\* ----------------------------------------------------------------- C17
\* the expected schema version of a kind at major version v, as a number
ExpectedAt(v, prefix) == int_of_str(_expected_versions_for(PyInt(v))[prefix]).val

\* C17: the lookup is monotonic: the expected schema version of each kind
\* at the major version asked about is not lower than at any smaller major
\* version and not higher than at any greater one.
C17_LookupMonotonic ==
  (InfoKnown /\ major.ty = "int") =>
    \A prefix \in {"MyVideos", "MyMusic"} :
      /\ \A v1 \in (0 - 1)..MaxMajor :
           v1 <= major.n =>
             ExpectedAt(v1, prefix) <= int_of_str(expected_info[prefix]).val
      /\ \A v2 \in (0 - 1)..MaxMajor :
           major.n <= v2 =>
             int_of_str(expected_info[prefix]).val <= ExpectedAt(v2, prefix)

\* the version asked about lies below every key, and a greater version has
\* a higher expected schema version
C17_Witness ==
  /\ InfoKnown
  /\ major.ty = "int"
  /\ \A k \in DOMAIN KODI_DB_VERSION_MAP : major.n < k
  /\ \E v2 \in major.n..MaxMajor :
       int_of_str(expected_info["MyVideos"]).val < ExpectedAt(v2, "MyVideos")

\* ----------------------------------------------------------------- C18
\* the major component of a version string: the text before its first "."
MajorComponent(s) ==
  LET dots == { i \in 1..Len(s) : s[i] = "." }
  IN  IF dots = {} THEN s
      ELSE SubSeq(s, 1, (CHOOSE i \in dots : \A j \in dots : i <= j) - 1)

\* C18: parsing a version string never raises: for a missing or empty
\* string, and for one whose major component is not a number, the result
\* is None; for one whose major component is a number (digits, after a
\* minus sign the negative of them) the result is that number; and
\* check_kodi_dbs is never ended by an exception of the parse.
C18_ParseNeverRaises ==
  /\ _parse_kodi_major(PyNone) = [exc |-> "none", ret |-> PyNone]
  /\ check_result.kind # "raised"
  /\ cpc \notin {"get_existing", "get_version"} =>
       LET parsed == _parse_kodi_major(kodi_ver)
           c == MajorComponent(kodi_ver.s)
       IN  /\ parsed.exc = "none"
           /\ InfoKnown => major = parsed.ret
           /\ IF c # <<>> /\ \A i \in 1..Len(c) : IsDigit(c[i])
              THEN parsed.ret = PyInt(DecimalValue(c))
              ELSE IF /\ Len(c) > 1
                      /\ Head(c) = "-"
                      /\ \A i \in 2..Len(c) : IsDigit(c[i])
              THEN parsed.ret = PyInt(0 - DecimalValue(Tail(c)))
              ELSE parsed.ret = PyNone

\* a version that is not empty and has no number in front was parsed, and
\* the check went on with an unknown major version
C18_Witness ==
  /\ cpc = "done"
  /\ kodi_ver.s # <<>>
  /\ MajorComponent(kodi_ver.s) # <<>>
  /\ major = PyNone
  /\ check_result.kind # "raised"
  /\ check_result.kind # "none"

\* ----------------------------------------------------------------- C19
\* C19: when connecting to the server fails, what check_kodi_dbs returns
\* differs from what it returns, for the same Kodi build, when the server
\* is reachable and holds no library database.
C19_ConnectionErrorDistinct ==
  (cpc = "done" /\ ~mysql_up) =>
    check_result #
      Classify(get_existing_kodi_dbs(TRUE, {}), kodi_ver, expected_info)

\* ----------------------------------------------------------------- C20
\* the library databases of the server
LibraryDbs ==
  { db \in mysql_dbs : startswith(db, MyVideos) \/ startswith(db, MyMusic) }

\* what follows the prefix in the name of a library database
SuffixOf(db) ==
  IF startswith(db, MyVideos) THEN SubSeq(db, Len(MyVideos) + 1, Len(db))
  ELSE SubSeq(db, Len(MyMusic) + 1, Len(db))

\* the suffix is a number and not below the version expected of the kind
MeetsExpected(db) ==
  /\ SuffixOf(db) # <<>>
  /\ \A i \in 1..Len(SuffixOf(db)) : IsDigit(SuffixOf(db)[i])
  /\ DecimalValue(SuffixOf(db)) >=
       DecimalValue(expected_info[IF startswith(db, MyVideos)
                                  THEN "MyVideos" ELSE "MyMusic"])

\* C20: a discovered database is compatible exactly when its integer
\* version suffix is >= the expected version of its kind; check_kodi_dbs
\* returns 'incompatible' with exactly the databases that are not, each
\* with its suffix, when there is one, and otherwise 'compatible' with
\* every discovered database.
C20_Classification ==
  (cpc = "done" /\ mysql_up /\ LibraryDbs # {}) =>
    /\ \A db \in LibraryDbs :
         is_version_compatible(db, kodi_ver) <=> MeetsExpected(db)
    /\ IF \E db \in LibraryDbs : ~MeetsExpected(db)
       THEN /\ check_result.kind = "incompatible"
            /\ DOMAIN check_result.dbs =
                 { db \in LibraryDbs : ~MeetsExpected(db) }
       ELSE /\ check_result.kind = "compatible"
            /\ DOMAIN check_result.dbs = LibraryDbs
    /\ \A db \in DOMAIN check_result.dbs :
         check_result.dbs[db] = SuffixOf(db)

\* version 121 is expected, the server holds MyVideos121 and MyVideos119,
\* and the result is 'incompatible' with MyVideos119 alone
C20_Witness ==
  /\ cpc = "done"
  /\ expected_info["MyVideos"] = << "1", "2", "1" >>
  /\ MyVideos \o << "1", "2", "1" >> \in mysql_dbs
  /\ check_result.kind = "incompatible"
  /\ DOMAIN check_result.dbs = { MyVideos \o << "1", "1", "9" >> }

\* ----------------------------------------------------------------- C21
\* the library databases whose suffix is not a number
UnparsableDbs ==
  { db \in LibraryDbs :
      \/ SuffixOf(db) = <<>>
      \/ \E i \in 1..Len(SuffixOf(db)) : ~IsDigit(SuffixOf(db)[i]) }

\* C21: a discovered database whose name has a known prefix and whose
\* suffix does not parse as an integer is classified as incompatible,
\* whatever the Kodi build and the versions it expects: the compatibility
\* test fails for it and check_kodi_dbs lists it under 'incompatible'.
C21_UnparsableIsIncompatible ==
  (cpc = "done" /\ mysql_up) =>
    \A db \in UnparsableDbs :
      /\ ~is_version_compatible(db, kodi_ver)
      /\ check_result.kind = "incompatible"
      /\ db \in DOMAIN check_result.dbs

\* the one database that is listed as incompatible is the one whose suffix
\* is no number, next to a database that meets the expected version
C21_Witness ==
  /\ cpc = "done"
  /\ UnparsableDbs # {}
  /\ LibraryDbs # UnparsableDbs
  /\ check_result.kind = "incompatible"
  /\ DOMAIN check_result.dbs = UnparsableDbs

\* ======================================================================
\* The wizard: main() of default.py, from the choice of the mode to the
\* writing of advancedsettings.xml.  One MySQL server, one account.
\* ======================================================================

\* what the user may type at the prompts of _collect_connection_details
TypedHosts == { << "h" >>, << " ", "h" >> }
TypedPorts == { <<>>, << "1", "2", "1" >> }
TypedUsers == { << "u" >> }
TypedPasswords == { <<>>, << "p" >> }

\* the database names typed at _step_configure_databases
TypedNames ==
  [video |-> MyVideos \o << "1", "2", "1", " " >>,
   music |-> MyMusic \o << "8", "2" >>]

\* check_kodi_dbs as the wizard meets it: one of its three results, or an
\* exception
CheckOutcomes == {"compatible", "incompatible", "error", "raises"}

\* what a migration meets once its connection details are accepted
MigrateOutcomes == {"ok", "no_source", "db_error"}

\* scanner.py lines 56-91: with the connector a login and SELECT 1, else
\* only a socket to the port
test_connection(host, port, user, password) ==
  IF mysql_module
  THEN server_up /\ password = PyStr(account_password)
  ELSE server_up

\* default.py lines 88-101: the typed text, or the default when it is
\* blank, as an int
_prompt_port(typed, default) ==
  LET value == IF strip(typed) = <<>> THEN str(default) ELSE strip(typed)
  IN  PyInt(int(PyStr(value)).val)

\* default.py lines 302-324: the section of a library, None when the
\* library was not configured
_build_database_section(section, default_prefix) ==
  IF section = NoConfig THEN NoConfig
  ELSE LET chosen == IF Truthy(section["database"]) THEN section["database"]
                     ELSE IF Truthy(section["name"]) THEN section["name"]
                     ELSE PyStr(default_prefix)
           name == strip(str(chosen))
       IN  IF name = <<>> THEN NoConfig
           ELSE [database |-> PyStr(name), name |-> PyStr(name),
                 dbname |-> PyNone, version |-> PyNone]

\* migrator.py lines 71-95, 150-208 as the wizard sees them: True, or
\* False and the error shown
_migrate_kodi_library(params_in, config, default_prefix, outcome) ==
  LET name == _resolve_database_name(config, default_prefix)
      built == _build_mysql_params(params_in, name)
      failed(msg) == [ok |-> FALSE, error |-> [msg |-> msg, fields |-> <<>>]]
  IN  IF ~mysql_module
      THEN failed("MySQL connector module is not available.")
      ELSE IF ~Truthy(name)
      THEN failed("Missing database name for migration.")
      ELSE IF outcome = "no_source"
      THEN failed("Could not locate local SQLite library.")
      ELSE IF ~built.ok
      THEN [ok |-> FALSE, error |-> built.error]
      ELSE IF outcome = "db_error"
      THEN failed("MySQL connection failed")
      ELSE [ok |-> TRUE, error |-> NoError]

InitWizard ==
  /\ server_up \in BOOLEAN
  /\ mysql_module \in BOOLEAN
  /\ account_password \in TypedPasswords
  /\ check_outcome \in CheckOutcomes
  /\ migrate_outcome \in [Libraries -> MigrateOutcomes]
  /\ wpc = "select_mode"
  /\ mode = "none"
  /\ details = FirstDetails
  /\ connection = NoServerParams
  /\ check_shown = "none"
  /\ video_section = NoConfig
  /\ music_section = NoConfig
  /\ migrate_opts = [migrate_video |-> FALSE, migrate_music |-> FALSE]
  /\ attempted = {}
  /\ succeeded = {}
  /\ shown_error = [library \in Libraries |-> NoError]
  /\ written = FALSE
  /\ MigrateUnused
  /\ LibUnused
  /\ CheckerUnused

wizEnv == << server_up, mysql_module, account_password, check_outcome,
             migrate_outcome >>

mainVars == << server, srcFile, sqlite_master, srcRows, dbExists, tgtTables,
               tgtMeta, committed, view, pc, run, conns, tables, idx, rows,
               migrated_tables, log, raised, result, tgt0 >>

\* lines 468-470: the mode, or the end of the wizard on cancel
SelectMode ==
  /\ wpc = "select_mode"
  /\ \E chosen \in {"none", "scan", "manual"} :
       /\ mode' = chosen
       /\ wpc' = IF chosen = "none" THEN "done" ELSE "collect"
  /\ UNCHANGED << mainVars, libVars, chkVars, wizEnv, check_shown, details, connection,
                  video_section, music_section, migrate_opts, attempted,
                  succeeded, shown_error, written >>

\* lines 149-191: one pass through the prompts; any cancel ends the wizard.
\* The port offered is the one of the chosen server when scanning, the last
\* one typed otherwise.
PromptDetails ==
  /\ wpc = "collect"
  /\ \/ /\ wpc' = "done"
        /\ UNCHANGED details
     \/ \E host \in TypedHosts, port \in TypedPorts, user \in TypedUsers,
           password \in TypedPasswords :
          /\ details' =
               [host |-> PyStr(strip(host)),
                port |-> _prompt_port(port,
                          IF mode = "scan" THEN PyInt(3306)
                          ELSE details["port"]),
                user |-> PyStr(strip(user)),
                password |-> PyStr(password)]
          /\ wpc' = "test"
  /\ UNCHANGED << mainVars, libVars, chkVars, wizEnv, check_shown, mode, connection,
                  video_section, music_section, migrate_opts, attempted,
                  succeeded, shown_error, written >>

\* lines 193-194: the details that passed the test become the connection
TestConnection ==
  /\ wpc = "test"
  /\ IF test_connection(details["host"], details["port"], details["user"],
                        details["password"])
     THEN /\ connection' = details
          /\ wpc' = "show_existing"
     ELSE /\ wpc' = "retry"
          /\ UNCHANGED connection
  /\ UNCHANGED << mainVars, libVars, chkVars, wizEnv, check_shown, mode, details,
                  video_section, music_section, migrate_opts, attempted,
                  succeeded, shown_error, written >>

\* lines 200-207: try again or give up
Retry ==
  /\ wpc = "retry"
  /\ \E retry \in BOOLEAN :
       wpc' = IF retry THEN "collect" ELSE "done"
  /\ UNCHANGED << mainVars, libVars, chkVars, wizEnv, check_shown, mode, details,
                  connection, video_section, music_section, migrate_opts,
                  attempted, succeeded, shown_error, written >>

\* an exception of the check ends the wizard
ShowExisting_blocks ==
  /\ wpc = "show_existing"
  /\ check_shown' = IF check_outcome = "raises" THEN "logged"
                    ELSE check_outcome
  /\ IF check_outcome = "raises"
     THEN /\ wpc' = "done"
          /\ connection' = NoServerParams
     ELSE /\ wpc' = "configure"
          /\ UNCHANGED connection
  /\ UNCHANGED << mainVars, libVars, chkVars, wizEnv, mode, details,
                  video_section, music_section, migrate_opts, attempted,
                  succeeded, shown_error, written >>
\* lines 197-198, 437-460, 472-474: the check is shown or logged, and the
\* connection is returned whatever it gave
ShowExisting ==
  /\ wpc = "show_existing"
  /\ check_shown' =
       CASE check_outcome = "raises"       -> "logged"
         [] check_outcome = "incompatible" -> "incompatible"
         [] check_outcome = "compatible"   -> "compatible"
         [] check_outcome = "error"        -> "error"
  /\ wpc' = IF connection # NoServerParams THEN "configure" ELSE "done"
  /\ UNCHANGED << mainVars, libVars, chkVars, wizEnv, mode, details,
                  connection, video_section, music_section, migrate_opts,
                  attempted, succeeded, shown_error, written >>

\* lines 209-248, 476-481: the libraries to store on the server; a cancel
\* at a name, or no library at all, ends the wizard
ConfigureDatabases ==
  /\ wpc = "configure"
  /\ \E cancelled \in BOOLEAN, chosen \in SUBSET Libraries :
       LET section(library) ==
             IF library \in chosen
             THEN [NoConfig EXCEPT
                     !["database"] = PyStr(strip(TypedNames[library]))]
             ELSE NoConfig
       IN  IF cancelled \/ chosen = {}
           THEN /\ wpc' = "done"
                /\ UNCHANGED << video_section, music_section >>
           ELSE /\ video_section' =
                     _build_database_section(section("video"), MyVideos)
                /\ music_section' =
                     _build_database_section(section("music"), MyMusic)
                /\ wpc' = "options"
  /\ UNCHANGED << mainVars, libVars, chkVars, wizEnv, check_shown, mode, details,
                  connection, migrate_opts, attempted, succeeded,
                  shown_error, written >>

\* lines 251-299, 483-485: only configured libraries are offered
MigrationOptions ==
  /\ wpc = "options"
  /\ \E cancelled \in BOOLEAN, selections \in SUBSET Libraries :
       /\ selections \subseteq
            { library \in Libraries :
                (IF library = "video" THEN video_section
                 ELSE music_section) # NoConfig }
       /\ IF cancelled
          THEN /\ wpc' = "done"
               /\ UNCHANGED migrate_opts
          ELSE /\ migrate_opts' =
                    [migrate_video |-> "video" \in selections,
                     migrate_music |-> "music" \in selections]
               /\ wpc' = "perform_video"
  /\ UNCHANGED << mainVars, libVars, chkVars, wizEnv, check_shown, mode, details,
                  connection, video_section, music_section, attempted,
                  succeeded, shown_error, written >>

\* goes on to the music library after a failure
MigrateVideo_continues ==
  /\ wpc = "perform_video"
  /\ IF migrate_opts.migrate_video /\ video_section # NoConfig
     THEN LET done == _migrate_kodi_library(connection, video_section,
                        MyVideos, migrate_outcome["video"])
          IN  /\ attempted' = attempted \cup {"video"}
              /\ succeeded' = IF done.ok THEN succeeded \cup {"video"}
                              ELSE succeeded
              /\ shown_error' = [shown_error EXCEPT !["video"] = done.error]
              /\ wpc' = "perform_music"
     ELSE /\ wpc' = "perform_music"
          /\ UNCHANGED << attempted, succeeded, shown_error >>
  /\ UNCHANGED << mainVars, libVars, chkVars, wizEnv, check_shown, mode, details,
                  connection, video_section, music_section, migrate_opts,
                  written >>
\* lines 333-335, 487-488: the video library, when selected and configured
MigrateVideo ==
  /\ wpc = "perform_video"
  /\ IF migrate_opts.migrate_video /\ video_section # NoConfig
     THEN LET done == _migrate_kodi_library(connection, video_section,
                        MyVideos, migrate_outcome["video"])
          IN  /\ attempted' = attempted \cup {"video"}
              /\ succeeded' = IF done.ok THEN succeeded \cup {"video"}
                              ELSE succeeded
              /\ shown_error' = [shown_error EXCEPT !["video"] = done.error]
              /\ wpc' = IF done.ok THEN "perform_music" ELSE "done"
     ELSE /\ wpc' = "perform_music"
          /\ UNCHANGED << attempted, succeeded, shown_error >>
  /\ UNCHANGED << mainVars, libVars, chkVars, wizEnv, check_shown, mode, details,
                  connection, video_section, music_section, migrate_opts,
                  written >>

\* lines 336-339, 487-488: the music library, when selected and configured
MigrateMusic ==
  /\ wpc = "perform_music"
  /\ IF migrate_opts.migrate_music /\ music_section # NoConfig
     THEN LET done == _migrate_kodi_library(connection, music_section,
                        MyMusic, migrate_outcome["music"])
          IN  /\ attempted' = attempted \cup {"music"}
              /\ succeeded' = IF done.ok THEN succeeded \cup {"music"}
                              ELSE succeeded
              /\ shown_error' = [shown_error EXCEPT !["music"] = done.error]
              /\ wpc' = IF done.ok THEN "write" ELSE "done"
     ELSE /\ wpc' = "write"
          /\ UNCHANGED << attempted, succeeded, shown_error >>
  /\ UNCHANGED << mainVars, libVars, chkVars, wizEnv, check_shown, mode, details,
                  connection, video_section, music_section, migrate_opts,
                  written >>

\* lines 490-491: write_advancedsettings and the summary
WriteSettings ==
  /\ wpc = "write"
  /\ written' = TRUE
  /\ wpc' = "done"
  /\ UNCHANGED << mainVars, libVars, chkVars, wizEnv, check_shown, mode, details,
                  connection, video_section, music_section, migrate_opts,
                  attempted, succeeded, shown_error >>

NextWizard ==
  \/ SelectMode
  \/ PromptDetails
  \/ TestConnection
  \/ Retry
  \/ ShowExisting
  \/ ConfigureDatabases
  \/ MigrationOptions
  \/ MigrateVideo
  \/ MigrateMusic
  \/ WriteSettings

SpecWizard == InitWizard /\ [][NextWizard]_vars

\* the wizard whose call of _show_existing_kodi_databases returns
LiveWizard == SpecWizard /\ WF_vars(ShowExisting)

\* C22: the compatibility check never blocks the wizard.  Whatever
\* check_kodi_dbs gives (compatible, incompatible, no database, an
\* exception), the step that shows it keeps the tested connection and
\* hands over to the configuration of the databases, and every pass
\* through it does reach that configuration.
C22_CheckNeverBlocks ==
  /\ [][wpc = "show_existing" =>
          /\ wpc' = "configure"
          /\ connection' = connection
          /\ connection # NoServerParams]_vars
  /\ (wpc = "show_existing" ~> wpc = "configure")

\* the check raised, the exception was logged, and the wizard went on to
\* migrate the video library and to write the settings
C22_Witness ==
  /\ check_outcome = "raises"
  /\ check_shown = "logged"
  /\ "video" \in succeeded
  /\ written

\* ----------------------------------------------------------------- C23
\* C23: the migration only inserts.  In every state of a call and after
\* it, each target table holds, committed and as the open transaction sees
\* it, every row it held when the call started, as many times; and a target
\* table without a source table of its name holds exactly those rows.
C23_InsertOnly ==
  \A t \in TableNames :
    /\ tgt0[t] \sqsubseteq committed[t]
    /\ tgt0[t] \sqsubseteq view[t]
    /\ t \notin Range(sqlite_master) =>
         (committed[t] = tgt0[t] /\ view[t] = tgt0[t])

\* a call ended that added rows to a table which already held some, next
\* to a target table with rows and no source table of its name
C23_Witness ==
  /\ Ended
  /\ \E t \in TableNames :
       /\ tgt0[t] # EmptyBag
       /\ committed[t] # tgt0[t]
  /\ \E t \in tgtTables :
       /\ t \notin Range(sqlite_master)
       /\ tgt0[t] # EmptyBag

\* ----------------------------------------------------------------- C24
\* C24: only a table of exactly the same name makes a source table pass
\* the existence check.  A table whose rows the loop has read, and is
\* inserting, committing or rolling back, is a table of the target catalog,
\* and so is every table logged as migrated.
C24_ExactNameOnly ==
  /\ (pc \in {"insert", "commit", "rollback"}) => tables[idx] \in tgtTables
  /\ \A t \in TableNames : log[t] = "migrated" => t \in tgtTables

\* ----------------------------------------------------------------- C25
\* C25: a transaction covers one table.  Whenever the loop is about to
\* take a table, the target connection holds no uncommitted write; and
\* while a table is inserted, committed or rolled back, the open
\* transaction differs from the committed rows in that table at most.
C25_TransactionPerTable ==
  /\ pc = "loop" => view = committed
  /\ pc \in {"insert", "commit", "rollback"} =>
       \A t \in TableNames : t # tables[idx] => view[t] = committed[t]

\* the loop takes a table after one table was committed with new rows and
\* another was rolled back because its commit raised
C25_Witness ==
  /\ pc = "loop"
  /\ idx <= Len(tables)
  /\ \E i, j \in 1..(idx - 1) :
       /\ log[tables[i]] = "migrated"
       /\ committed[tables[i]] # tgt0[tables[i]]
       /\ log[tables[j]] = "failed"
       /\ ~tgtMeta[tables[j]].commitOK

\* ----------------------------------------------------------------- C26
\* Supporting fact: the list the loop runs over is the catalog's user
\* tables in catalog order, fetched in full before the first table is
\* taken, and a loop that no exception leaves ends past its last entry.
LoopInCatalogOrder ==
  /\ LoopEntered => tables = _iter_sqlite_tables(sqlite_master)
  /\ (Ended /\ LoopEntered /\ raised = "none") => idx = Len(tables) + 1

\* C26: every user table of the source catalog is visited by the loop, in
\* catalog order, and the loop ends after the last one: a call that
\* entered the loop has, when it ends, taken every table of the catalog.
C26_EveryTableVisited ==
  (Ended /\ LoopEntered) =>
    /\ tables = _iter_sqlite_tables(sqlite_master)
    /\ \A j \in 1..Len(tables) : Visited(j)

\* ----------------------------------------------------------------- C27
\* the libraries the wizard was told to migrate: configured and selected
Selected ==
  { library \in Libraries :
      /\ (IF library = "video" THEN video_section ELSE music_section)
           # NoConfig
      /\ (IF library = "video" THEN migrate_opts.migrate_video
          ELSE migrate_opts.migrate_music) }

\* C27: advancedsettings.xml is written only after every selected library
\* migration returned success.  A migration is attempted only for a library
\* that was configured and selected; once the video migration has failed
\* the music migration is never attempted and nothing is written; and when
\* the file is written every library configured and selected was migrated
\* with success.
C27_WrittenAfterSuccess ==
  /\ attempted \subseteq Selected
  /\ succeeded \subseteq attempted
  /\ ("video" \in attempted \ succeeded) =>
       ("music" \notin attempted /\ ~written)
  /\ ("music" \in attempted \ succeeded) => ~written
  /\ (wpc = "write" \/ written) => (attempted = Selected /\ succeeded = Selected)

\* both libraries were selected, the video migration failed on the server
\* and the wizard ended without the music migration, which would have
\* succeeded, and without the file
C27_Witness ==
  /\ wpc = "done"
  /\ Selected = Libraries
  /\ attempted = {"video"}
  /\ succeeded = {}
  /\ ~written
  /\ migrate_outcome = [video |-> "db_error", music |-> "ok"]
  /\ _migrate_kodi_library(connection, music_section, MyMusic,
                           migrate_outcome["music"]).ok

\* the file was written after both migrations succeeded
BothMigratedAndWritten ==
  wpc = "done" /\ Selected = Libraries /\ succeeded = Libraries /\ written

\* ----------------------------------------------------------------- C28
\* C28: every connection _collect_connection_details returns passes the
\* migrator's validation of the connection details, and no migration the
\* wizard starts with it is rejected for missing details.
C28_ReturnedConnectionAccepted ==
  /\ connection # NoServerParams =>
       \A library \in Libraries :
         _build_mysql_params(connection,
                             PyStr(strip(TypedNames[library]))).ok
  /\ \A library \in attempted :
       shown_error[library].msg # "Missing MySQL connection details"

\* the account has an empty password, the connector logged in with it, and
\* the migration of a library was rejected for the missing password
EmptyPasswordRejected ==
  /\ mysql_module
  /\ account_password = <<>>
  /\ \E library \in attempted :
       /\ shown_error[library].msg = "Missing MySQL connection details"
       /\ shown_error[library].fields = << "password" >>
====
